---- MODULE Spec2Model ----
(***************************************************************************)
(* Tinxy integration: the device parser and registry of tinxycloud.py,    *)
(* the update coordinator of coordinator.py and the light / lock platform *)
(* setup of light.py and lock.py.                                         *)
(*                                                                         *)
(* Python dicts are functions over their key set, lists are sequences,    *)
(* f-strings are string concatenations.  None / "" (both falsy) is "".    *)
(***************************************************************************)
EXTENDS Integers, Sequences, FiniteSets, TLC

(***************************************************************************)
(* Bounds of the model.                                                    *)
(***************************************************************************)
\* largest number of relay slots of a hardware unit
MaxSlots == 2
\* largest number of hardware units in one inventory
MaxUnits == 2
\* largest number of sync_devices calls on one TinxyCloud object
MaxSyncs == 2
\* largest number of records in one status feed given to get_all_status alone
MaxRecords == 2
\* largest number of consecutive refreshes of one coordinator taken alone
MaxRefreshes == 2
\* last tick of the clock of the refresh debouncer
MaxTicks == 6
\* largest number of refresh requests given to the debouncer
MaxRequests == 4
\* largest number of submissions of the configuration form
MaxAttempts == 3

(***************************************************************************)
(* Class constants of TinxyCloud.                                          *)
(***************************************************************************)
DISABLED_DEVICES == {"EVA_HUB"}

ENABLED_DEVICES ==
    {"Dimmable Light", "EM_DOOR_LOCK", "EVA_BULB", "EVA_BULB_WW", "Fan",
     "WIFI_2SWITCH_V1", "WIFI_2SWITCH_V3", "WIFI_3SWITCH_1FAN", "WIFI_3SWITCH_1FAN_V3",
     "WIFI_4DIMMER", "WIFI_4SWITCH", "WIFI_4SWITCH_V2", "WIFI_4SWITCH_V3",
     "WIFI_6SWITCH_V1", "WIFI_6SWITCH_V3", "WIFI_BULB_WHITE_V1", "WIFI_SWITCH",
     "WIFI_SWITCH_1FAN_V1", "WIFI_SWITCH_V2", "WIFI_SWITCH_V3", "WIRED_DOOR_LOCK",
     "WIRED_DOOR_LOCK_V2", "WIRED_DOOR_LOCK_V3"}

GTYPE_LIGHT == {"action.devices.types.LIGHT"}

GTYPE_SWITCH == {"action.devices.types.SWITCH"}

GTYPE_LOCK == {"action.devices.types.LOCK"}

TYPE_ID_LOCK == {"WIRED_DOOR_LOCK_V3"}

TYPE_ID_EVA == {"EVA_BULB_WW", "EVA_BULB"}

TYPE_ID_FAN == {"WIFI_3SWITCH_1FAN", "Fan", "WIFI_SWITCH_1FAN_V1", "WIFI_3SWITCH_1FAN_V3"}

\* the local set light_types of _get_device_type
light_types == {"Tubelight", "LED Bulb", "EVA_BULB_WW"}

\* the local table icon_mapping of _generate_icon
icon_mapping ==
    [k \in {"Heater", "Tubelight", "LED Bulb", "Dimmable Light", "LED Dimmable Bulb",
            "Music System", "Fan", "Socket", "TV", "Lock"} |->
        CASE k = "Heater" -> "mdi:radiator"
          [] k = "Tubelight" -> "mdi:lightbulb-fluorescent-tube"
          [] k = "LED Bulb" -> "mdi:lightbulb"
          [] k = "Dimmable Light" -> "mdi:lightbulb"
          [] k = "LED Dimmable Bulb" -> "mdi:lightbulb"
          [] k = "Music System" -> "mdi:music"
          [] k = "Fan" -> "mdi:fan"
          [] k = "Socket" -> "mdi:power-socket-eu"
          [] k = "TV" -> "mdi:television"
          [] OTHER -> "mdi:lock"]

(***************************************************************************)
(* The vendor's inventory records (inputs of the parser).                  *)
(***************************************************************************)
\* type names the inventory may carry: enabled, disabled and unrecognised
TypeNames == ENABLED_DEVICES \cup DISABLED_DEVICES \cup {"Tubelight", "SMART_PLUG_X"}

Gtypes == GTYPE_LIGHT \cup GTYPE_SWITCH \cup GTYPE_LOCK

TraitLists ==
    { <<>>,
      <<"action.devices.traits.OnOff", "action.devices.traits.Brightness">>,
      <<"action.devices.traits.Brightness", "action.devices.traits.ColorSetting">> }

UnitIds == {"U1", "U2"}

\* the labels of the relay slots, in slot order
SlotLabels == [i \in 1..(MaxSlots + 1) |-> "R" \o ToString(i)]

\* per-slot user overrides; "" is an absent (None or empty) override
Overrides == {"", "Light", "Fan"}

SeqsUpTo(S, n) == UNION { [1..k -> S] : k \in 0..n }

\* the typeId object of an inventory record
TypeIds ==
    { [name |-> tn, long_name |-> "Tinxy " \o tn, gtype |-> g, traits |-> tr] :
        tn \in TypeNames, g \in Gtypes, tr \in TraitLists }

\* a hardware unit as the inventory endpoint returns it
MakeUnit(uid, tid, n, dts) ==
    [_id |-> uid, name |-> "Home " \o uid, typeId |-> tid, firmwareVersion |-> 1,
     devices |-> SubSeq(SlotLabels, 1, n), deviceTypes |-> dts]

\* every hardware unit of the bounds; deviceTypes may be shorter than devices
HardwareUnits ==
    { MakeUnit(uid, tid, n, dts) :
        uid \in UnitIds, tid \in TypeIds, n \in 0..MaxSlots,
        dts \in SeqsUpTo(Overrides, MaxSlots) }

\* a unit of the data model: one override entry per declared slot
WellFormed(data) == Len(data.deviceTypes) >= Len(data.devices)

(***************************************************************************)
(* TinxyCloud: the device parser.                                          *)
(***************************************************************************)
_generate_icon(device_type) ==
    IF device_type \in TYPE_ID_EVA
    THEN "mdi:lightbulb"
    ELSE IF device_type \in DOMAIN icon_mapping
         THEN icon_mapping[device_type]
         ELSE "mdi:toggle-switch"

\* _get_device_type with the test of item_id dropped from the fan rule
_get_device_type_any_slot(tinxy_type, item_id) ==
    IF tinxy_type \in TYPE_ID_FAN THEN "Fan"
    ELSE IF tinxy_type \in light_types THEN "Light"
    ELSE IF tinxy_type \in TYPE_ID_LOCK THEN "Lock"
    ELSE "Switch"

_get_device_type(tinxy_type, item_id) ==
    IF tinxy_type \in TYPE_ID_FAN /\ item_id = 0 THEN "Fan"
    ELSE IF tinxy_type \in light_types THEN "Light"
    ELSE IF tinxy_type \in TYPE_ID_LOCK THEN "Lock"
    ELSE "Switch"

get_device_info(device) ==
    [identifiers |-> {<<"tinxy", device._id>>},
     name |-> device.name,
     manufacturer |-> "Tinxy.in",
     model |-> device.typeId.long_name,
     sw_version |-> device.firmwareVersion]

\* x or y of Python on strings
Or(x, y) == IF x # "" THEN x ELSE y

\* _create_device_dict keying a device by its unit alone
_create_device_dict_unit_id(data, device_type, relay_no, node_name, user_device_type) ==
    [id |-> data._id,
     device_id |-> data._id,
     name |-> IF node_name # "" THEN data.name \o " " \o node_name ELSE data.name,
     relay_no |-> relay_no,
     gtype |-> data.typeId.gtype,
     traits |-> data.typeId.traits,
     device_type |-> device_type,
     user_device_type |-> Or(user_device_type, device_type),
     device_desc |-> data.typeId.long_name,
     tinxy_type |-> data.typeId.name,
     icon |-> _generate_icon(Or(user_device_type, device_type)),
     device |-> get_device_info(data)]

\* _create_device_dict with the override stored as the device_type
_create_device_dict_override(data, device_type, relay_no, node_name, user_device_type) ==
    [id |-> data._id \o "-" \o ToString(relay_no),
     device_id |-> data._id,
     name |-> IF node_name # "" THEN data.name \o " " \o node_name ELSE data.name,
     relay_no |-> relay_no,
     gtype |-> data.typeId.gtype,
     traits |-> data.typeId.traits,
     device_type |-> Or(user_device_type, device_type),
     user_device_type |-> Or(user_device_type, device_type),
     device_desc |-> data.typeId.long_name,
     tinxy_type |-> data.typeId.name,
     icon |-> _generate_icon(Or(user_device_type, device_type)),
     device |-> get_device_info(data)]

_create_device_dict(data, device_type, relay_no, node_name, user_device_type) ==
    [id |-> data._id \o "-" \o ToString(relay_no),
     device_id |-> data._id,
     name |-> IF node_name # "" THEN data.name \o " " \o node_name ELSE data.name,
     relay_no |-> relay_no,
     gtype |-> data.typeId.gtype,
     traits |-> data.typeId.traits,
     device_type |-> device_type,
     user_device_type |-> Or(user_device_type, device_type),
     device_desc |-> data.typeId.long_name,
     tinxy_type |-> data.typeId.name,
     icon |-> _generate_icon(Or(user_device_type, device_type)),
     device |-> get_device_info(data)]

\* parse_device raises (IndexError on data["deviceTypes"][item_id]) exactly
\* when an enabled multi-node unit has fewer overrides than slots
parse_device_raises(data) ==
    /\ data.devices # <<>>
    /\ data.typeId.name \in ENABLED_DEVICES
    /\ Len(data.deviceTypes) < Len(data.devices)

\* the single-node branch of parse_device
parse_single_node(data) ==
    IF data.typeId.name \in ENABLED_DEVICES
    THEN << _create_device_dict(
               data,
               IF data.typeId.name \in TYPE_ID_EVA
               THEN "Light"
               ELSE _get_device_type(data.typeId.name, 0),
               1, "", "") >>
    ELSE <<>>

\* parse_multi_node with the slot index used as the relay number
parse_multi_node_zero_based(data) ==
    IF data.typeId.name \in ENABLED_DEVICES
    THEN LET done == IF Len(data.deviceTypes) < Len(data.devices)
                     THEN Len(data.deviceTypes)
                     ELSE Len(data.devices)
         IN  [i \in 1..done |->
                _create_device_dict(
                    data, _get_device_type(data.typeId.name, i - 1), i - 1,
                    data.devices[i], data.deviceTypes[i])]
    ELSE <<>>

\* the multi-node branch of parse_device: the devices appended by the loop;
\* when parse_device_raises(data) these are the ones appended before the raise
parse_multi_node(data) ==
    IF data.typeId.name \in ENABLED_DEVICES
    THEN LET done == IF Len(data.deviceTypes) < Len(data.devices)
                     THEN Len(data.deviceTypes)
                     ELSE Len(data.devices)
         IN  [i \in 1..done |->
                _create_device_dict(
                    data, _get_device_type(data.typeId.name, i - 1), i,
                    data.devices[i], data.deviceTypes[i])]
    ELSE <<>>

\* the local list devices of parse_device: its return value when it does not raise
parse_device(data) ==
    IF data.devices = <<>> THEN parse_single_node(data) ELSE parse_multi_node(data)

\* parse_device warning for every type that is not enabled
parse_device_warnings_disabled(data) ==
    IF data.typeId.name \notin ENABLED_DEVICES THEN 1 ELSE 0

\* the warnings parse_device logs
parse_device_warnings(data) ==
    IF data.typeId.name \notin ENABLED_DEVICES /\ data.typeId.name \notin DISABLED_DEVICES
    THEN 1 ELSE 0

(***************************************************************************)
(* TinxyHostConfiguration.                                                 *)
(***************************************************************************)
\* Python's None as a value of api_token and api_url
NoneValue == "<None>"

\* "not value" for a string or None
Falsy(value) == value \in {NoneValue, ""}

ApiTokens == {NoneValue, "", "token"}

ApiUrls == {NoneValue, "", "https://host/"}

\* __post_init__ testing the URL before the token
__post_init__url_first(api_token_arg, api_url_arg) ==
    IF Falsy(api_url_arg) THEN "TinxyException"
    ELSE IF Falsy(api_token_arg) THEN "TinxyAuthenticationException"
    ELSE "ok"

\* how the construction of TinxyHostConfiguration ends: "ok" or the exception
\* __post_init__ raises
__post_init__(api_token_arg, api_url_arg) ==
    IF Falsy(api_token_arg) THEN "TinxyAuthenticationException"
    ELSE IF Falsy(api_url_arg) THEN "TinxyException"
    ELSE "ok"

(***************************************************************************)
(* TinxyCloud: the registry and the status extractor.                      *)
(***************************************************************************)
\* the local list device_list of sync_devices after the loop over result
RECURSIVE device_list(_)
device_list(result) ==
    IF result = <<>>
    THEN <<>>
    ELSE parse_device(Head(result)) \o device_list(Tail(result))

\* the loop of sync_devices raises when parse_device raises for some unit
sync_raises(result) == \E i \in 1..Len(result) : parse_device_raises(result[i])

\* sync_devices extending self.devices instead of replacing it
sync_devices_extend(old, result) ==
    IF sync_raises(result) THEN old ELSE old \o device_list(result)

\* sync_devices extending self.devices inside the loop: the units parsed
\* before the raise are visible
sync_devices_partial(old, result) ==
    IF sync_raises(result)
    THEN LET first == CHOOSE i \in 1..Len(result) :
                         /\ parse_device_raises(result[i])
                         /\ \A j \in 1..(i - 1) : ~parse_device_raises(result[j])
         IN  device_list(SubSeq(result, 1, first - 1))
    ELSE device_list(result)

\* self.devices after sync_devices has received result, given the old list
sync_devices(old, result) ==
    IF sync_raises(result) THEN old ELSE device_list(result)

\* filter of a list by a predicate on its elements, in order
RECURSIVE SelectByType(_, _)
SelectByType(devs, dtype) ==
    IF devs = <<>> THEN <<>>
    ELSE IF Head(devs).device_type = dtype
         THEN <<Head(devs)>> \o SelectByType(Tail(devs), dtype)
         ELSE SelectByType(Tail(devs), dtype)

list_switches(devs) == SelectByType(devs, "Switch")

list_lights(devs) == SelectByType(devs, "Light")

list_fans(devs) == SelectByType(devs, "Fan")

RECURSIVE list_locks(_)
list_locks(devs) ==
    IF devs = <<>> THEN <<>>
    ELSE IF Head(devs).gtype \in GTYPE_LOCK
         THEN <<Head(devs)>> \o list_locks(Tail(devs))
         ELSE list_locks(Tail(devs))

\* the empty dict
EmptyMap == [k \in {} |-> 0]

\* d[k] = v on a dict
Put(d, k, v) == [x \in DOMAIN d \cup {k} |-> IF x = k THEN v ELSE d[x]]

\* {**a, **b} keeping only the fields of b
UnionSecondOnly(a, b) == [k \in DOMAIN b |-> b[k]]

\* {**a, **b}
Union(a, b) == [k \in DOMAIN a \cup DOMAIN b |-> IF k \in DOMAIN b THEN b[k] ELSE a[k]]

\* state_to_val taking everything but "OFF" as on
state_to_val_not_off(state) == state # "OFF"

state_to_val(state) == state = "ON"

StateFields == {"state", "status", "brightness", "door", "colorTemperatureInKelvin"}

\* _extract_device_state emitting a brightness of 0 when the raw state has none
_extract_device_state_default(state_data) ==
    [k \in (DOMAIN state_data \cap StateFields) \cup {"brightness"} |->
        IF k \notin DOMAIN state_data THEN 0
        ELSE IF k = "state" THEN state_to_val(state_data[k]) ELSE state_data[k]]

_extract_device_state(state_data) ==
    [k \in DOMAIN state_data \cap StateFields |->
        IF k = "state" THEN state_to_val(state_data[k]) ELSE state_data[k]]

\* dict.get(key, default)
Get(d, k, default) == IF k \in DOMAIN d THEN d[k] ELSE default

\* the body of the loop over the items of a list payload
StatusOfItem(device_status, status, item) ==
    LET device_id == status._id \o "-" \o ToString(Get(item, "number", 1))
        extracted == _extract_device_state(Get(item, "state", EmptyMap))
        single_device == IF "number" \notin DOMAIN item
                         THEN Put(extracted, "item", item)
                         ELSE extracted
    IN  Put(device_status, device_id, single_device)

RECURSIVE StatusOfItems(_, _, _)
StatusOfItems(device_status, status, items) ==
    IF items = <<>> THEN device_status
    ELSE StatusOfItems(StatusOfItem(device_status, status, Head(items)), status, Tail(items))

\* StatusOfRecord giving a record without state the key of relay 1
StatusOfRecordDefault(device_status, status) ==
    IF "state" \notin DOMAIN status
    THEN Put(device_status, status._id \o "-1", EmptyMap)
    ELSE IF "list" \in DOMAIN status.state
         THEN StatusOfItems(device_status, status, status.state.list)
         ELSE Put(device_status, status._id \o "-1",
                  _extract_device_state(status.state.object))

\* the body of the loop over status_data; a payload is tagged with its Python
\* type: [list |-> items] for a list, [object |-> dict] otherwise
StatusOfRecord(device_status, status) ==
    IF "state" \notin DOMAIN status THEN device_status
    ELSE IF "list" \in DOMAIN status.state
         THEN StatusOfItems(device_status, status, status.state.list)
         ELSE Put(device_status, status._id \o "-1",
                  _extract_device_state(status.state.object))

RECURSIVE StatusOfFeed(_, _)
StatusOfFeed(device_status, status_data) ==
    IF status_data = <<>> THEN device_status
    ELSE StatusOfFeed(StatusOfRecord(device_status, Head(status_data)), Tail(status_data))

\* get_all_status raises (KeyError on status['_id']) when a record that has a
\* state has no _id
get_all_status_raises(status_data) ==
    \E i \in 1..Len(status_data) :
        "state" \in DOMAIN status_data[i] /\ "_id" \notin DOMAIN status_data[i]

\* the mapping get_all_status returns for the feed status_data
get_all_status(status_data) == StatusOfFeed(EmptyMap, status_data)

(***************************************************************************)
(* TinxyUpdateCoordinator: the merge of _async_update_data.                *)
(***************************************************************************)
\* the local dict status_by_id when the loop over all_devices has ended
RECURSIVE MergeLoop(_, _, _)
MergeLoop(status_by_id, all_devs, status_result) ==
    IF all_devs = <<>> THEN status_by_id
    ELSE LET device == Head(all_devs)
             device_id == device.id
         IN  MergeLoop(
                 IF device_id \in DOMAIN status_result
                 THEN Put(status_by_id, device_id, Union(device, status_result[device_id]))
                 ELSE status_by_id,
                 Tail(all_devs), status_result)

\* _async_update_data keeping the devices that have no status entry
_async_update_data_keep_all(all_devs, status_result) ==
    [k \in {all_devs[i].id : i \in 1..Len(all_devs)} |->
        LET device == all_devs[CHOOSE i \in 1..Len(all_devs) : all_devs[i].id = k]
        IN  Union(device, Get(status_result, k, EmptyMap))]

\* the value _async_update_data returns when get_all_status returned status_result
_async_update_data(all_devs, status_result) == MergeLoop(EmptyMap, all_devs, status_result)

\* what ends the status fetch of a refresh without a feed: the vendor rejects
\* the credentials (HTTP 401 at raise_for_status), the vendor cannot be
\* reached, or the time budget of the refresh ends during the request
FetchFailures == {"rejected", "unreachable", "timeout"}

\* the exception that leaves tinxy_request: every Exception raised by the
\* request is raised again as TinxyException; the cancellation that the
\* timeout delivers is no Exception and passes through
tinxy_request_raises(failure) ==
    IF failure = "timeout" THEN "CancelledError" ELSE "TinxyException"

\* the exception that leaves the block "async with async_timeout.timeout":
\* the cancellation of the expired timeout becomes TimeoutError
timeout_exit(exc) == IF exc = "CancelledError" THEN "TimeoutError" ELSE exc

\* the handlers of _async_update_data with the catch-all raising ConfigEntryAuthFailed
_async_update_data_raises_auth(exc) ==
    CASE exc = "TinxyAuthenticationException" -> "ConfigEntryAuthFailed"
      [] exc = "TinxyException" -> "UpdateFailed"
      [] OTHER -> "ConfigEntryAuthFailed"

\* the handlers of _async_update_data without the catch-all
_async_update_data_raises_known(exc) ==
    CASE exc = "TinxyAuthenticationException" -> "ConfigEntryAuthFailed"
      [] exc = "TinxyException" -> "UpdateFailed"
      [] OTHER -> exc

\* the exception _async_update_data raises when exc is raised inside its try
\* block: the handlers in their order
_async_update_data_raises(exc) ==
    CASE exc = "TinxyAuthenticationException" -> "ConfigEntryAuthFailed"
      [] exc = "TinxyException" -> "UpdateFailed"
      [] OTHER -> "UpdateFailed"

(***************************************************************************)
(* Inventories and status feeds of the vendor used with the registry and  *)
(* the coordinator.                                                        *)
(***************************************************************************)
UnitTypeId(tn, g) ==
    [name |-> tn, long_name |-> "Tinxy " \o tn, gtype |-> g, traits |-> <<>>]

\* the records the vendor may return for each hardware unit
UnitVariants ==
    [uid \in {"U1", "U2", "U3"} |->
        CASE uid = "U1" ->
               { MakeUnit("U1", UnitTypeId("WIFI_4SWITCH", "action.devices.types.SWITCH"),
                          2, <<"", "Light">>),
                 MakeUnit("U1", UnitTypeId("WIFI_SWITCH", "action.devices.types.SWITCH"),
                          0, <<>>) }
          [] uid = "U2" ->
               { MakeUnit("U2", UnitTypeId("WIFI_3SWITCH_1FAN", "action.devices.types.SWITCH"),
                          2, <<"Light", "Fan">>),
                 MakeUnit("U2", UnitTypeId("WIFI_4SWITCH", "action.devices.types.SWITCH"),
                          2, <<"Light">>) }
          [] OTHER ->
               { MakeUnit("U3", UnitTypeId("SMART_PLUG_X", "action.devices.types.SWITCH"),
                          0, <<>>),
                 MakeUnit("U3", UnitTypeId("WIRED_DOOR_LOCK_V3", "action.devices.types.LOCK"),
                          0, <<>>),
                 MakeUnit("U3", UnitTypeId("EM_DOOR_LOCK", "action.devices.types.LOCK"),
                          0, <<>>) }]

\* the inventories: each unit absent or in one of its variants, at most
\* MaxUnits units, listed in the order of their identifiers
Inventories ==
    { inv \in SeqsUpTo(UNION { UnitVariants[uid] : uid \in DOMAIN UnitVariants }, MaxUnits) :
        \A i, j \in 1..Len(inv) :
            i < j => \E a, b \in 1..3 :
                        /\ a < b
                        /\ inv[i]._id = "U" \o ToString(a)
                        /\ inv[j]._id = "U" \o ToString(b) }

StatusFeeds ==
    { \* both relays of U1 and the single relay of U3
      << [_id |-> "U1",
          state |-> [list |-> << [number |-> 1, state |-> [state |-> "ON", status |-> 1]],
                                 [number |-> 2,
                                  state |-> [state |-> "OFF", status |-> 1, brightness |-> 66]] >>]],
         [_id |-> "U3", state |-> [object |-> [state |-> "ON", status |-> 1, door |-> "OPEN"]]] >>,
      \* relay 2 of U1 only, U2 as a single object, a unit that is not registered
      << [_id |-> "U1", state |-> [list |-> << [number |-> 2, state |-> [state |-> "ON"]] >>]],
         [_id |-> "U2", state |-> [object |-> [state |-> "OFF", status |-> 0]]],
         [_id |-> "U9", state |-> [object |-> [state |-> "ON"]]] >>,
      \* a record without state and an item without number
      << [_id |-> "U1"],
         [_id |-> "U2", state |-> [list |-> << [state |-> [state |-> "ON", status |-> 1]] >>]] >> }

\* a feed get_all_status cannot read: a record with a state and no _id
MalformedFeeds ==
    { << [_id |-> "U1", state |-> [object |-> [state |-> "ON"]]],
         [state |-> [object |-> [state |-> "ON"]]] >> }

(***************************************************************************)
(* Commands: TinxyLight, TinxyLock and set_device_state.                   *)
(***************************************************************************)
\* an Optional value: <<>> for None (or a keyword argument that is not
\* given), <<v>> for the value v
Absent == <<>>

\* set_device_state putting a brightness in the payload only when it is truthy
set_device_state_truthy(item_id, device_number, state, brightness, color_temp) ==
    LET with_state == [state |-> state]
        with_brightness == IF brightness # Absent /\ brightness[1] # 0
                           THEN Put(with_state, "brightness", brightness[1])
                           ELSE with_state
        request == IF color_temp # Absent
                   THEN Put(with_brightness, "colorTemperatureInKelvin", color_temp[1])
                   ELSE with_brightness
    IN  [path |-> "v2/devices/" \o item_id \o "/toggle",
         method |-> "POST",
         payload |-> [request |-> request, deviceNumber |-> device_number]]

\* the arguments set_device_state passes to tinxy_request
set_device_state(item_id, device_number, state, brightness, color_temp) ==
    LET with_state == [state |-> state]
        with_brightness == IF brightness # Absent
                           THEN Put(with_state, "brightness", brightness[1])
                           ELSE with_state
        request == IF color_temp # Absent
                   THEN Put(with_brightness, "colorTemperatureInKelvin", color_temp[1])
                   ELSE with_brightness
    IN  [path |-> "v2/devices/" \o item_id \o "/toggle",
         method |-> "POST",
         payload |-> [request |-> request, deviceNumber |-> device_number]]

\* the request tinxy_request sends: a payload gets the source tag
tinxy_request(path, payload, method) ==
    [path |-> path, method |-> method, json |-> Put(payload, "source", "Home Assistant")]

DEFAULT_BRIGHTNESS == 255

\* math.floor((brightness / scale_from) * scale_to) for brightness >= 0
ScaleBrightness(brightness, scale_from, scale_to) == (brightness * scale_to) \div scale_from

\* TinxyLight.__init__: the colour mode of the entity, from the traits
ColorModeOf(traits) ==
    LET has(tr) == \E i \in 1..Len(traits) : traits[i] = tr
    IN  IF has("action.devices.traits.ColorSetting") /\ has("action.devices.traits.Brightness")
        THEN "COLOR_TEMP"
        ELSE IF has("action.devices.traits.Brightness") THEN "BRIGHTNESS" ELSE "ONOFF"

\* TinxyLight.__init__: self._data_brightness, from the merged view at creation
DataBrightnessOf(traits, device_data) ==
    IF ColorModeOf(traits) = "BRIGHTNESS"
    THEN << ScaleBrightness(Get(device_data, "brightness", 0), 100, DEFAULT_BRIGHTNESS) >>
    ELSE Absent

\* the entities a command is sent to: lights of each trait list and a lock;
\* in_data tells whether coordinator.data has the entity's key
CommandEntities ==
    { [platform |-> "light", idx |-> "U1-2", device_id |-> "U1", relay_no |-> 2,
       traits |-> tr, _data_brightness |-> DataBrightnessOf(tr, dd), in_data |-> present] :
         tr \in TraitLists, dd \in {EmptyMap, [brightness |-> 66]}, present \in BOOLEAN }
    \cup
    { [platform |-> "lock", idx |-> "U3-1", device_id |-> "U3", relay_no |-> 1,
       traits |-> <<>>, _data_brightness |-> Absent, in_data |-> present] :
         present \in BOOLEAN }

\* the keyword arguments of a command
CommandKwargs ==
    { [brightness |-> b, color_temp_kelvin |-> ct] :
         b \in {Absent, <<0>>, <<255>>}, ct \in {Absent, <<4000>>} }

\* the commands of a platform
CommandsOf(platform) ==
    IF platform = "light" THEN {"async_turn_on", "async_turn_off"}
    ELSE {"async_unlock", "async_lock"}

\* the state flag a command sends
StateFlag(command) == IF command \in {"async_turn_on", "async_unlock"} THEN 1 ELSE 0

\* the arguments a command gives to set_device_state
CommandArgs(entity, command, kwargs) ==
    IF entity.platform = "light"
    THEN LET brightness == IF kwargs.brightness # Absent
                           THEN kwargs.brightness
                           ELSE entity._data_brightness
         IN  [item_id |-> entity.device_id,
              device_number |-> ToString(entity.relay_no),
              state |-> StateFlag(command),
              brightness |-> IF brightness # Absent
                             THEN << ScaleBrightness(brightness[1], DEFAULT_BRIGHTNESS, 100) >>
                             ELSE Absent,
              color_temp |-> kwargs.color_temp_kelvin]
    ELSE [item_id |-> entity.device_id,
          device_number |-> ToString(entity.relay_no),
          state |-> StateFlag(command),
          brightness |-> Absent,
          color_temp |-> Absent]

(***************************************************************************)
(* The state readers of the entities, on coordinator.data. A result is     *)
(* "True", "False" or the exception raised.                                *)
(***************************************************************************)
\* bool(value) or a comparison, as a result
Result(bool) == IF bool THEN "True" ELSE "False"

\* TinxyLight.is_on: bool(self.coordinator.data[self.idx]["state"])
is_on(coordinator_data, idx) ==
    IF idx \notin DOMAIN coordinator_data THEN "KeyError"
    ELSE IF "state" \notin DOMAIN coordinator_data[idx] THEN "KeyError"
    ELSE Result(coordinator_data[idx].state = TRUE)

\* TinxyLight.available: self.coordinator.data[self.idx].get("status") == 1
light_available(coordinator_data, idx) ==
    IF idx \notin DOMAIN coordinator_data THEN "KeyError"
    ELSE Result("status" \in DOMAIN coordinator_data[idx] /\ coordinator_data[idx].status = 1)

\* TinxyLock.is_locked: data.get("door", data.get("state")) != LOCK_STATE_OPEN
is_locked(coordinator_data, idx) ==
    IF idx \notin DOMAIN coordinator_data THEN "KeyError"
    ELSE Result(~("door" \in DOMAIN coordinator_data[idx] /\ coordinator_data[idx].door = "OPEN"))

\* TinxyLock.available: self.coordinator.data[self.device.id].get("status", 0) == 1
lock_available(coordinator_data, idx) ==
    IF idx \notin DOMAIN coordinator_data THEN "KeyError"
    ELSE Result(Get(coordinator_data[idx], "status", 0) = 1)

(***************************************************************************)
(* The refresh debouncer of the coordinator.                               *)
(***************************************************************************)
\* 0.35 s, in ticks of 0.175 s
REQUEST_REFRESH_DELAY == 2

\* the value of the timer while none is scheduled
NoTimer == 0 - 1

\* the record of one timer period of the debouncer: when its timer was
\* scheduled, when refresh requests arrived in it, when refreshes started in it
NewWindow(now, calls) == [opened |-> now, calls |-> calls, fetches |-> <<>>]

(***************************************************************************)
(* The configuration flow.                                                 *)
(***************************************************************************)
\* the API keys the form can submit
ApiKeys == {"", "token"}

\* what makes the request of sync_devices fail in the flow
FlowFailures == {"rejected", "unreachable"}

\* the exception validate_user_input raises when exc is raised by
\* api.sync_devices(): _log_and_raise(err, ..., InvalidAuth)
validate_user_input_raises(exc) == "InvalidAuth"

\* errors["base"] after async_step_user caught exc
async_step_user_error(exc) ==
    CASE exc = "CannotConnect" -> "cannot_connect"
      [] exc = "InvalidAuth" -> "invalid_auth"
      [] OTHER -> "unknown"

(***************************************************************************)
(* Raw states and status feeds given to the extractor alone.               *)
(***************************************************************************)
\* the values a field of a raw per-relay state object may carry; rssi is a
\* field the extractor does not know
FieldValues ==
    [state |-> {"ON", "OFF", "on"},
     status |-> {0, 1},
     brightness |-> {0, 66},
     door |-> {"OPEN", "CLOSED"},
     colorTemperatureInKelvin |-> {4000},
     rssi |-> {-60}]

\* the dicts over the fields F, each field absent or with one of its values
RECURSIVE ObjectsOver(_)
ObjectsOver(F) ==
    IF F = {} THEN {EmptyMap}
    ELSE LET k == CHOOSE x \in F : TRUE
             rest == ObjectsOver(F \ {k})
         IN  rest \cup { Put(o, k, v) : o \in rest, v \in FieldValues[k] }

StateObjects == ObjectsOver(DOMAIN FieldValues)

\* the payloads of a status record: single objects and lists of items
FeedPayloads ==
    { [object |-> [state |-> "ON", status |-> 1, brightness |-> 66]],
      [object |-> EmptyMap],
      [list |-> <<>>],
      [list |-> << [number |-> 2,
                    state |-> [state |-> "ON", status |-> 1, brightness |-> 66]] >>],
      [list |-> << [number |-> 1, state |-> [state |-> "OFF"]],
                   [number |-> 2, state |-> [state |-> "ON"]] >>],
      [list |-> << [state |-> [state |-> "ON"]] >>],
      [list |-> << [number |-> 1], [state |-> [door |-> "OPEN"]] >>],
      [list |-> << [number |-> 2, state |-> [state |-> "ON"]],
                   [number |-> 2, state |-> [state |-> "OFF"]] >>] }

\* the records of a status feed: without state, with a payload, and one
\* without the unit identifier
FeedRecords ==
    { [_id |-> uid] : uid \in UnitIds }
    \cup { [_id |-> uid, state |-> pl] : uid \in UnitIds, pl \in FeedPayloads }
    \cup { [state |-> [object |-> [state |-> "ON"]]] }

RawFeeds == SeqsUpTo(FeedRecords, MaxRecords)

(***************************************************************************)
(* State.                                                                  *)
(***************************************************************************)
\* the tasks that fetch the status: the two platform setups and the
\* coordinator's scheduled refresh
Platforms == {"light", "lock"}

Tasks == Platforms \cup {"timer"}

VARIABLES
    unit,        \* parser harness: the argument data of parse_device
    parsed,      \* parser harness: the list parse_device returned
    parse_pc,    \* parser harness: "call", "returned", "raised" ("off": not in use)
    warned,      \* parser harness: number of warnings parse_device logged
    feed_in,     \* extractor harness: the feed tinxy_request returned to get_all_status
    status_out,  \* extractor harness: the mapping get_all_status returned
    status_pc,   \* extractor harness: "call", "returned", "raised" ("off": not in use)
    state_in,    \* extractor harness: the argument state_data of _extract_device_state
    state_out,   \* extractor harness: the dict _extract_device_state returned
    extract_pc,  \* extractor harness: "call", "returned" ("off": not in use)
    merge_devices, \* refresh harness: self.all_devices of the coordinator
    merge_feeds,   \* refresh harness: the feeds of its refreshes, in order
    merge_views,   \* refresh harness: the mappings its refreshes returned, in order
    cmd_entity,    \* command harness: the entity the command is sent to
    cmd_name,      \* command harness: the method called on the entity
    cmd_kwargs,    \* command harness: its keyword arguments
    cmd_args,      \* command harness: the arguments given to set_device_state
    cmd_request,   \* command harness: the request tinxy_request sent
    cmd_errors,    \* command harness: the errors the command logged
    cmd_refresh_requests, \* command harness: its calls of async_request_refresh
    cmd_pc,        \* command harness: "call", "api", "after_try", "returned" ("off")
    deb_now,       \* debouncer: the clock, in ticks
    deb_timer,     \* debouncer: the tick its timer ends at (NoTimer: no timer)
    deb_execute_at_end, \* debouncer: _execute_at_end_of_timer
    deb_running,   \* debouncer: _execute_lock is held, a refresh is running
    deb_requests,  \* debouncer: the calls of async_request_refresh so far
    deb_dropped,   \* debouncer: the calls that arrived while a refresh was running
    deb_windows,   \* debouncer: the timer periods so far, in order
    flow_pc,       \* configuration flow: "form", "validating", "created" ("off")
    flow_key,      \* configuration flow: the API key submitted
    flow_errors,   \* configuration flow: errors["base"] of the form shown ("": none)
    flow_history,  \* configuration flow: the submissions that failed, in order
    api_token,   \* TinxyHostConfiguration.api_token as given to the constructor
    api_url,     \* TinxyHostConfiguration.api_url as given to the constructor
    host_config, \* "new" before the construction, then "ok" or the exception raised
    devices,     \* TinxyCloud.devices
    sync_pc,     \* sync_devices: "idle" or "fetching" (awaiting tinxy_request)
    sync_result, \* how the last sync_devices call ended at its caller
    syncs,       \* number of sync_devices calls so far
    last_synced, \* the inventory of the last sync_devices call that returned
    constructed, \* the coordinator has been constructed
    all_devices, \* TinxyUpdateCoordinator.all_devices
    ctor_inventory, \* the inventory the registry held when the coordinator was constructed
    setup_steps, \* async_setup_entry: what it did after the sync, in order
    setup_result, \* async_setup_entry: "pending" or "False", the value it returned
    has_data,    \* coordinator.data is not None
    data,        \* coordinator.data (EmptyMap while None)
    last_feed,   \* the status feed of the last refresh that returned
    registry_at_refresh, \* TinxyCloud.devices when the last refresh merged
    refresh_outcome, \* how the refresh that ended last ended: "none", "ok" or
                 \* the exception _async_update_data raised
    refresh_cause,   \* what made that refresh fail ("none": nothing)
    pc           \* where each task is

parse_vars == <<unit, parsed, parse_pc, warned>>

pure_vars == <<feed_in, status_out, status_pc, state_in, state_out, extract_pc>>

merge_vars == <<merge_devices, merge_feeds, merge_views>>

\* the variables of the harnesses that apply one function alone
cmd_vars == <<cmd_entity, cmd_name, cmd_kwargs, cmd_args, cmd_request, cmd_errors,
              cmd_refresh_requests, cmd_pc>>

deb_vars == <<deb_now, deb_timer, deb_execute_at_end, deb_running, deb_requests,
              deb_dropped, deb_windows>>

flow_vars == <<flow_pc, flow_key, flow_errors, flow_history>>

harness_vars == <<parse_vars, pure_vars, merge_vars, cmd_vars, deb_vars, flow_vars>>

config_vars == <<api_token, api_url, host_config>>

sync_vars == <<devices, sync_pc, sync_result, syncs, last_synced>>

coord_vars == <<constructed, all_devices, ctor_inventory, setup_steps, setup_result>>

data_vars == <<has_data, data, last_feed, registry_at_refresh>>

refresh_vars == <<refresh_outcome, refresh_cause>>

task_vars == <<pc>>

\* the variables of the integration as a whole
program_vars == <<config_vars, sync_vars, coord_vars, data_vars, refresh_vars, task_vars>>

vars == <<harness_vars, program_vars>>

\* the state before the host configuration is constructed: no TinxyCloud
\* request was made and no coordinator exists
RegistryInit ==
    /\ api_token = NoneValue
    /\ api_url = NoneValue
    /\ host_config = "new"
    /\ devices = <<>>
    /\ sync_pc = "idle"
    /\ sync_result = "none"
    /\ syncs = 0
    /\ last_synced = <<>>
    /\ constructed = FALSE
    /\ all_devices = <<>>
    /\ ctor_inventory = <<>>
    /\ setup_steps = <<>>
    /\ setup_result = "pending"
    /\ has_data = FALSE
    /\ data = EmptyMap
    /\ last_feed = <<>>
    /\ registry_at_refresh = <<>>
    /\ refresh_outcome = "none"
    /\ refresh_cause = "none"
    /\ pc = [t \in Tasks |-> IF t \in Platforms THEN "init" ELSE "idle"]

\* the parser harness when not in use
ParseOff ==
    /\ unit = <<>>
    /\ parsed = <<>>
    /\ parse_pc = "off"
    /\ warned = 0

\* the extractor harness when not in use
PureOff ==
    /\ feed_in = <<>>
    /\ status_out = EmptyMap
    /\ status_pc = "off"
    /\ state_in = EmptyMap
    /\ state_out = EmptyMap
    /\ extract_pc = "off"

\* the refresh harness when not in use
MergeOff ==
    /\ merge_devices = <<>>
    /\ merge_feeds = <<>>
    /\ merge_views = <<>>

\* the command harness when not in use
CommandOff ==
    /\ cmd_entity = EmptyMap
    /\ cmd_name = ""
    /\ cmd_kwargs = EmptyMap
    /\ cmd_args = EmptyMap
    /\ cmd_request = EmptyMap
    /\ cmd_errors = 0
    /\ cmd_refresh_requests = 0
    /\ cmd_pc = "off"

\* the debouncer before any refresh request
DebounceOff ==
    /\ deb_now = 0
    /\ deb_timer = NoTimer
    /\ deb_execute_at_end = FALSE
    /\ deb_running = FALSE
    /\ deb_requests = 0
    /\ deb_dropped = 0
    /\ deb_windows = <<>>

\* the configuration flow when not in use
FlowOff ==
    /\ flow_pc = "off"
    /\ flow_key = ""
    /\ flow_errors = ""
    /\ flow_history = <<>>

\* the debouncer and the configuration flow, not in use
UiOff ==
    /\ DebounceOff
    /\ FlowOff

\* the harnesses other than the parser's, not in use
OthersOff ==
    /\ PureOff
    /\ MergeOff
    /\ CommandOff
    /\ UiOff

Init ==
    /\ ParseOff
    /\ OthersOff
    /\ RegistryInit

(***************************************************************************)
(* sync_devices.                                                           *)
(***************************************************************************)
\* TinxyHostConfiguration(api_token, api_url): the dataclass stores the
\* fields and __post_init__ validates them
ConfigureHost(api_token_arg, api_url_arg) ==
    /\ host_config = "new"
    /\ api_token' = api_token_arg
    /\ api_url' = api_url_arg
    /\ host_config' = __post_init__(api_token_arg, api_url_arg)
    /\ UNCHANGED <<harness_vars, sync_vars, coord_vars, data_vars, refresh_vars, task_vars>>

\* sync_devices is called on the TinxyCloud of a constructed host
\* configuration and awaits tinxy_request("v2/devices/")
SyncStart ==
    /\ host_config = "ok"
    /\ sync_pc = "idle"
    /\ syncs < MaxSyncs
    /\ sync_pc' = "fetching"
    /\ syncs' = syncs + 1
    /\ UNCHANGED <<devices, sync_result, last_synced>>
    /\ UNCHANGED <<harness_vars, config_vars, coord_vars, data_vars, refresh_vars, task_vars>>

\* the sync_devices call of async_setup_entry, the only one on its TinxyCloud
SetupSync ==
    /\ syncs = 0
    /\ SyncStart

\* tinxy_request returns result: the loop parses it and the list is assigned,
\* or parse_device raises out of sync_devices
SyncReceive(result) ==
    /\ sync_pc = "fetching"
    /\ sync_pc' = "idle"
    /\ devices' = sync_devices(devices, result)
    /\ sync_result' = IF sync_raises(result) THEN "IndexError" ELSE "ok"
    /\ last_synced' = IF sync_raises(result) THEN last_synced ELSE result
    /\ UNCHANGED syncs
    /\ UNCHANGED <<harness_vars, config_vars, coord_vars, data_vars, refresh_vars, task_vars>>

\* tinxy_request raises TinxyException out of sync_devices
SyncFetchFails ==
    /\ sync_pc = "fetching"
    /\ sync_pc' = "idle"
    /\ sync_result' = "TinxyException"
    /\ UNCHANGED <<devices, syncs, last_synced>>
    /\ UNCHANGED <<harness_vars, config_vars, coord_vars, data_vars, refresh_vars, task_vars>>

(***************************************************************************)
(* async_setup_entry and the coordinator.                                  *)
(***************************************************************************)
\* the sync of async_setup_entry raised: the handler logs and returns False
SetupFails ==
    /\ setup_result = "pending"
    /\ ~constructed
    /\ sync_pc = "idle"
    /\ sync_result \notin {"none", "ok"}
    /\ setup_result' = "False"
    /\ UNCHANGED <<constructed, all_devices, ctor_inventory, setup_steps>>
    /\ UNCHANGED <<harness_vars, config_vars, sync_vars, data_vars, refresh_vars, task_vars>>

\* Construct going on after a sync that raised
ConstructAfterAnySync ==
    /\ ~constructed
    /\ sync_pc = "idle"
    /\ sync_result # "none"
    /\ constructed' = TRUE
    /\ all_devices' = devices
    /\ ctor_inventory' = last_synced
    /\ setup_steps' = <<"coordinator", "store", "forward">>
    /\ UNCHANGED setup_result
    /\ UNCHANGED <<harness_vars, config_vars, sync_vars, data_vars, refresh_vars, task_vars>>

\* async_setup_entry after its sync returned, up to its next await:
\* TinxyUpdateCoordinator.__init__, the pair (api, coordinator) is stored
\* under the entry's id, async_forward_entry_setups is called
Construct ==
    /\ ~constructed
    /\ setup_result = "pending"
    /\ sync_pc = "idle"
    /\ sync_result = "ok"
    /\ constructed' = TRUE
    /\ all_devices' = devices
    /\ ctor_inventory' = last_synced
    /\ setup_steps' = <<"coordinator", "store", "forward">>
    /\ UNCHANGED setup_result
    /\ UNCHANGED <<harness_vars, config_vars, sync_vars, data_vars, refresh_vars, task_vars>>

\* a platform's async_setup_entry runs up to its first await:
\* coordinator.async_config_entry_first_refresh(), which awaits get_all_status
PlatformSetup(t) ==
    /\ t \in Platforms
    /\ constructed
    /\ pc[t] = "init"
    /\ pc' = [pc EXCEPT ![t] = "first_refresh"]
    /\ UNCHANGED <<harness_vars, config_vars, sync_vars, coord_vars, data_vars, refresh_vars>>

\* RefreshStart emptying the visible mapping before the fetch
RefreshStartClears(t) ==
    /\ t = "timer"
    /\ constructed
    /\ pc[t] = "idle"
    /\ pc' = [pc EXCEPT ![t] = "refresh"]
    /\ data' = EmptyMap
    /\ UNCHANGED <<has_data, last_feed, registry_at_refresh>>
    /\ UNCHANGED <<harness_vars, config_vars, sync_vars, coord_vars, refresh_vars>>

\* the scheduler starts a refresh: _async_update_data awaits get_all_status
RefreshStart(t) ==
    /\ t = "timer"
    /\ constructed
    /\ pc[t] = "idle"
    /\ pc' = [pc EXCEPT ![t] = "refresh"]
    /\ UNCHANGED <<harness_vars, config_vars, sync_vars, coord_vars, data_vars, refresh_vars>>

\* RefreshReturn merging the registry's current list
RefreshReturnCurrent(t, status_data) ==
    /\ pc[t] \in {"first_refresh", "refresh"}
    /\ ~get_all_status_raises(status_data)
    /\ refresh_outcome' = "ok"
    /\ refresh_cause' = "none"
    /\ data' = _async_update_data(devices, get_all_status(status_data))
    /\ has_data' = TRUE
    /\ last_feed' = status_data
    /\ registry_at_refresh' = devices
    /\ pc' = [pc EXCEPT ![t] = IF t \in Platforms THEN "get_all_status" ELSE "idle"]
    /\ UNCHANGED <<harness_vars, config_vars, sync_vars, coord_vars>>

\* get_all_status returns inside _async_update_data: the merge runs and the
\* returned mapping becomes coordinator.data; a platform goes on to its own
\* call of get_all_status
RefreshReturn(t, status_data) ==
    /\ pc[t] \in {"first_refresh", "refresh"}
    /\ ~get_all_status_raises(status_data)
    /\ refresh_outcome' = "ok"
    /\ refresh_cause' = "none"
    /\ data' = _async_update_data(all_devices, get_all_status(status_data))
    /\ has_data' = TRUE
    /\ last_feed' = status_data
    /\ registry_at_refresh' = devices
    /\ pc' = [pc EXCEPT ![t] = IF t \in Platforms THEN "get_all_status" ELSE "idle"]
    /\ UNCHANGED <<harness_vars, config_vars, sync_vars, coord_vars>>

\* the request of get_all_status fails or the time budget ends: the handlers
\* of _async_update_data turn the exception into the one the refresh raises,
\* coordinator.data stays; the first refresh of a platform then ends the
\* platform's setup
RefreshFails(t, failure) ==
    /\ pc[t] \in {"first_refresh", "refresh"}
    /\ refresh_outcome' = _async_update_data_raises(timeout_exit(tinxy_request_raises(failure)))
    /\ refresh_cause' = failure
    /\ pc' = [pc EXCEPT ![t] = IF t \in Platforms THEN "failed" ELSE "idle"]
    /\ UNCHANGED <<harness_vars, config_vars, sync_vars, coord_vars, data_vars>>

\* the request returns a feed get_all_status cannot read: the KeyError of
\* status['_id'] is raised inside the try block of _async_update_data
RefreshExtractFails(t, status_data) ==
    /\ pc[t] \in {"first_refresh", "refresh"}
    /\ get_all_status_raises(status_data)
    /\ refresh_outcome' = _async_update_data_raises(timeout_exit("KeyError"))
    /\ refresh_cause' = "malformed"
    /\ pc' = [pc EXCEPT ![t] = IF t \in Platforms THEN "failed" ELSE "idle"]
    /\ UNCHANGED <<harness_vars, config_vars, sync_vars, coord_vars, data_vars>>

\* the platform's own get_all_status call ends: the entities are added, or
\* the exception ends the setup
PlatformStatusReturn(t) ==
    /\ t \in Platforms
    /\ pc[t] = "get_all_status"
    /\ \E ok \in BOOLEAN : pc' = [pc EXCEPT ![t] = IF ok THEN "done" ELSE "failed"]
    /\ UNCHANGED <<harness_vars, config_vars, sync_vars, coord_vars, data_vars, refresh_vars>>

\* a config entry is set up: one sync, the coordinator, the platforms
Next ==
    \/ \E api_token_arg \in ApiTokens, api_url_arg \in ApiUrls :
          ConfigureHost(api_token_arg, api_url_arg)
    \/ SetupSync
    \/ \E result \in Inventories : SyncReceive(result)
    \/ SyncFetchFails
    \/ SetupFails
    \/ Construct
    \/ \E t \in Platforms : PlatformSetup(t)
    \/ RefreshStart("timer")
    \/ \E t \in Tasks, status_data \in StatusFeeds : RefreshReturn(t, status_data)
    \/ \E t \in Tasks, failure \in FetchFailures : RefreshFails(t, failure)
    \/ \E t \in Tasks, status_data \in MalformedFeeds : RefreshExtractFails(t, status_data)
    \/ \E t \in Platforms : PlatformStatusReturn(t)

Spec == Init /\ [][Next]_vars

\* the registry and the coordinator under any sequence of sync_devices calls
\* and refreshes
NextApi ==
    \/ ConfigureHost("token", "https://host/")
    \/ SyncStart
    \/ \E result \in Inventories : SyncReceive(result)
    \/ SyncFetchFails
    \/ Construct
    \/ RefreshStart("timer")
    \/ \E status_data \in StatusFeeds : RefreshReturn("timer", status_data)
    \/ RefreshFails("timer", "unreachable")

SpecApi == Init /\ [][NextApi]_vars

(***************************************************************************)
(* The parser applied to every hardware unit of the bounds.                *)
(***************************************************************************)
ParseInit ==
    /\ unit \in HardwareUnits
    /\ parsed = <<>>
    /\ parse_pc = "call"
    /\ warned = 0
    /\ OthersOff
    /\ RegistryInit

ParseReturn ==
    /\ parse_pc = "call"
    /\ ~parse_device_raises(unit)
    /\ parsed' = parse_device(unit)
    /\ warned' = parse_device_warnings(unit)
    /\ parse_pc' = "returned"
    /\ UNCHANGED unit
    /\ UNCHANGED <<pure_vars, merge_vars, cmd_vars, deb_vars, flow_vars, program_vars>>

ParseRaise ==
    /\ parse_pc = "call"
    /\ parse_device_raises(unit)
    /\ parse_pc' = "raised"
    /\ UNCHANGED <<unit, parsed, warned>>
    /\ UNCHANGED <<pure_vars, merge_vars, cmd_vars, deb_vars, flow_vars, program_vars>>

ParseNext == ParseReturn \/ ParseRaise

SpecParse == ParseInit /\ [][ParseNext]_vars

(***************************************************************************)
(* get_all_status applied to every feed of the bounds.                     *)
(***************************************************************************)
StatusInit ==
    /\ feed_in \in RawFeeds
    /\ status_out = EmptyMap
    /\ status_pc = "call"
    /\ state_in = EmptyMap
    /\ state_out = EmptyMap
    /\ extract_pc = "off"
    /\ ParseOff
    /\ MergeOff
    /\ CommandOff
    /\ UiOff
    /\ RegistryInit

StatusReturn ==
    /\ status_pc = "call"
    /\ ~get_all_status_raises(feed_in)
    /\ status_out' = get_all_status(feed_in)
    /\ status_pc' = "returned"
    /\ UNCHANGED <<feed_in, state_in, state_out, extract_pc>>
    /\ UNCHANGED <<parse_vars, merge_vars, cmd_vars, deb_vars, flow_vars, program_vars>>

StatusRaise ==
    /\ status_pc = "call"
    /\ get_all_status_raises(feed_in)
    /\ status_pc' = "raised"
    /\ UNCHANGED <<feed_in, status_out, state_in, state_out, extract_pc>>
    /\ UNCHANGED <<parse_vars, merge_vars, cmd_vars, deb_vars, flow_vars, program_vars>>

StatusNext == StatusReturn \/ StatusRaise

SpecStatus == StatusInit /\ [][StatusNext]_vars

(***************************************************************************)
(* _extract_device_state applied to every raw state of the bounds.         *)
(***************************************************************************)
ExtractInit ==
    /\ state_in \in StateObjects
    /\ state_out = EmptyMap
    /\ extract_pc = "call"
    /\ feed_in = <<>>
    /\ status_out = EmptyMap
    /\ status_pc = "off"
    /\ ParseOff
    /\ MergeOff
    /\ CommandOff
    /\ UiOff
    /\ RegistryInit

ExtractReturn ==
    /\ extract_pc = "call"
    /\ state_out' = _extract_device_state(state_in)
    /\ extract_pc' = "returned"
    /\ UNCHANGED <<feed_in, status_out, status_pc, state_in>>
    /\ UNCHANGED <<parse_vars, merge_vars, cmd_vars, deb_vars, flow_vars, program_vars>>

ExtractNext == ExtractReturn

SpecExtract == ExtractInit /\ [][ExtractNext]_vars

(***************************************************************************)
(* Consecutive refreshes of one coordinator over every device list.        *)
(***************************************************************************)
\* the lists list_all_devices may return to the coordinator's constructor
MergeDeviceLists == { device_list(inv) : inv \in { i \in Inventories : ~sync_raises(i) } }

MergeInit ==
    /\ merge_devices \in MergeDeviceLists
    /\ merge_feeds = <<>>
    /\ merge_views = <<>>
    /\ ParseOff
    /\ PureOff
    /\ CommandOff
    /\ UiOff
    /\ RegistryInit

\* MergeRefresh merging the new status into the mapping of the last refresh
MergeRefreshAccumulate(status_data) ==
    /\ Len(merge_feeds) < MaxRefreshes
    /\ merge_feeds' = Append(merge_feeds, status_data)
    /\ merge_views' =
          LET fresh == _async_update_data(merge_devices, get_all_status(status_data))
              old == IF merge_views = <<>> THEN EmptyMap ELSE merge_views[Len(merge_views)]
          IN  Append(merge_views,
                     [k \in DOMAIN fresh |->
                         IF k \in DOMAIN old THEN Union(old[k], fresh[k]) ELSE fresh[k]])
    /\ UNCHANGED merge_devices
    /\ UNCHANGED <<parse_vars, pure_vars, cmd_vars, deb_vars, flow_vars, program_vars>>

\* one refresh: get_all_status returns the mapping of the feed status_data and
\* _async_update_data returns the merge built in its local status_by_id
MergeRefresh(status_data) ==
    /\ Len(merge_feeds) < MaxRefreshes
    /\ merge_feeds' = Append(merge_feeds, status_data)
    /\ merge_views' = Append(merge_views,
                             _async_update_data(merge_devices, get_all_status(status_data)))
    /\ UNCHANGED merge_devices
    /\ UNCHANGED <<parse_vars, pure_vars, cmd_vars, deb_vars, flow_vars, program_vars>>

MergeNext == \E status_data \in StatusFeeds : MergeRefresh(status_data)

SpecMerge == MergeInit /\ [][MergeNext]_vars

(***************************************************************************)
(* One command on one entity: async_turn_on, async_turn_off, async_unlock, *)
(* async_lock.                                                             *)
(***************************************************************************)
CommandInit ==
    /\ cmd_entity \in CommandEntities
    /\ cmd_name \in CommandsOf(cmd_entity.platform)
    /\ cmd_kwargs \in IF cmd_entity.platform = "light"
                      THEN CommandKwargs
                      ELSE {[brightness |-> Absent, color_temp_kelvin |-> Absent]}
    /\ cmd_args = EmptyMap
    /\ cmd_request = EmptyMap
    /\ cmd_errors = 0
    /\ cmd_refresh_requests = 0
    /\ cmd_pc = "call"
    /\ ParseOff
    /\ PureOff
    /\ MergeOff
    /\ UiOff
    /\ RegistryInit

\* the try block up to the await: a light reads device_id and relay_no from
\* coordinator.data[self.idx] (KeyError, caught and logged, when the key is
\* not there), a lock from its own device record; set_device_state builds the
\* payload and tinxy_request sends it
CommandCall ==
    /\ cmd_pc = "call"
    /\ IF cmd_entity.platform = "light" /\ ~cmd_entity.in_data
       THEN /\ cmd_errors' = cmd_errors + 1
            /\ cmd_pc' = "after_try"
            /\ UNCHANGED <<cmd_args, cmd_request>>
       ELSE LET args == CommandArgs(cmd_entity, cmd_name, cmd_kwargs)
                call == set_device_state(args.item_id, args.device_number, args.state,
                                         args.brightness, args.color_temp)
            IN  /\ cmd_args' = args
                /\ cmd_request' = tinxy_request(call.path, call.payload, call.method)
                /\ cmd_pc' = "api"
                /\ UNCHANGED cmd_errors
    /\ UNCHANGED <<cmd_entity, cmd_name, cmd_kwargs, cmd_refresh_requests>>
    /\ UNCHANGED <<parse_vars, pure_vars, merge_vars, deb_vars, flow_vars, program_vars>>

\* the request returns: set_device_state returns, the command logs at info
CommandApiReturns ==
    /\ cmd_pc = "api"
    /\ cmd_pc' = "after_try"
    /\ UNCHANGED <<cmd_entity, cmd_name, cmd_kwargs, cmd_args, cmd_request, cmd_errors,
                   cmd_refresh_requests>>
    /\ UNCHANGED <<parse_vars, pure_vars, merge_vars, deb_vars, flow_vars, program_vars>>

\* the request fails: TinxyException is caught by the command and logged
CommandApiRaises ==
    /\ cmd_pc = "api"
    /\ cmd_errors' = cmd_errors + 1
    /\ cmd_pc' = "after_try"
    /\ UNCHANGED <<cmd_entity, cmd_name, cmd_kwargs, cmd_args, cmd_request,
                   cmd_refresh_requests>>
    /\ UNCHANGED <<parse_vars, pure_vars, merge_vars, deb_vars, flow_vars, program_vars>>

\* CommandRequestRefresh asking for a refresh only after a call that returned
CommandRequestRefreshOnSuccess ==
    /\ cmd_pc = "after_try"
    /\ cmd_refresh_requests' = IF cmd_errors = 0
                               THEN cmd_refresh_requests + 1
                               ELSE cmd_refresh_requests
    /\ cmd_pc' = "returned"
    /\ UNCHANGED <<cmd_entity, cmd_name, cmd_kwargs, cmd_args, cmd_request, cmd_errors>>
    /\ UNCHANGED <<parse_vars, pure_vars, merge_vars, deb_vars, flow_vars, program_vars>>

\* after the try statement: await self.coordinator.async_request_refresh(),
\* then the command returns
CommandRequestRefresh ==
    /\ cmd_pc = "after_try"
    /\ cmd_refresh_requests' = cmd_refresh_requests + 1
    /\ cmd_pc' = "returned"
    /\ UNCHANGED <<cmd_entity, cmd_name, cmd_kwargs, cmd_args, cmd_request, cmd_errors>>
    /\ UNCHANGED <<parse_vars, pure_vars, merge_vars, deb_vars, flow_vars, program_vars>>

CommandNext ==
    \/ CommandCall
    \/ CommandApiReturns
    \/ CommandApiRaises
    \/ CommandRequestRefresh

SpecCommand == CommandInit /\ [][CommandNext]_vars

(***************************************************************************)
(* The debouncer the coordinator gives to DataUpdateCoordinator:           *)
(* Debouncer(cooldown=REQUEST_REFRESH_DELAY, immediate=False), called by   *)
(* async_request_refresh.                                                  *)
(***************************************************************************)
DebounceInit ==
    /\ DebounceOff
    /\ ParseOff
    /\ PureOff
    /\ MergeOff
    /\ CommandOff
    /\ FlowOff
    /\ RegistryInit

\* the last timer period gets one more request
AddCall(windows, now) ==
    [windows EXCEPT ![Len(windows)].calls = Append(@, now)]

\* the last timer period gets one more refresh
AddFetch(windows, now) ==
    [windows EXCEPT ![Len(windows)].fetches = Append(@, now)]

\* RequestRefresh starting a refresh for every request that finds a timer
RequestRefreshNoCoalesce ==
    /\ deb_requests < MaxRequests
    /\ deb_requests' = deb_requests + 1
    /\ IF deb_timer # NoTimer
       THEN /\ deb_windows' = AddFetch(AddCall(deb_windows, deb_now), deb_now)
            /\ UNCHANGED <<deb_timer, deb_dropped, deb_execute_at_end>>
       ELSE IF deb_running
       THEN /\ deb_dropped' = deb_dropped + 1
            /\ UNCHANGED <<deb_timer, deb_execute_at_end, deb_windows>>
       ELSE /\ deb_execute_at_end' = TRUE
            /\ deb_timer' = deb_now + REQUEST_REFRESH_DELAY
            /\ deb_windows' = Append(deb_windows, NewWindow(deb_now, <<deb_now>>))
            /\ UNCHANGED deb_dropped
    /\ UNCHANGED <<deb_now, deb_running>>
    /\ UNCHANGED <<parse_vars, pure_vars, merge_vars, cmd_vars, flow_vars, program_vars>>

\* coordinator.async_request_refresh(): the debouncer's async_call. With a
\* timer scheduled the request is kept for the end of the timer; while a
\* refresh runs it is dropped; otherwise (immediate=False) the timer is
\* scheduled and the refresh is left to its end
RequestRefresh ==
    /\ deb_requests < MaxRequests
    /\ deb_requests' = deb_requests + 1
    /\ IF deb_timer # NoTimer
       THEN /\ deb_execute_at_end' = TRUE
            /\ deb_windows' = AddCall(deb_windows, deb_now)
            /\ UNCHANGED <<deb_timer, deb_dropped>>
       ELSE IF deb_running
       THEN /\ deb_dropped' = deb_dropped + 1
            /\ UNCHANGED <<deb_timer, deb_execute_at_end, deb_windows>>
       ELSE /\ deb_execute_at_end' = TRUE
            /\ deb_timer' = deb_now + REQUEST_REFRESH_DELAY
            /\ deb_windows' = Append(deb_windows, NewWindow(deb_now, <<deb_now>>))
            /\ UNCHANGED deb_dropped
    /\ UNCHANGED <<deb_now, deb_running>>
    /\ UNCHANGED <<parse_vars, pure_vars, merge_vars, cmd_vars, flow_vars, program_vars>>

\* the timer ends: with a request kept, the refresh starts and fetches the
\* status feed
TimerFinish ==
    /\ deb_timer = deb_now
    /\ deb_timer' = NoTimer
    /\ deb_execute_at_end' = FALSE
    /\ IF deb_execute_at_end
       THEN /\ deb_running' = TRUE
            /\ deb_windows' = AddFetch(deb_windows, deb_now)
       ELSE UNCHANGED <<deb_running, deb_windows>>
    /\ UNCHANGED <<deb_now, deb_requests, deb_dropped>>
    /\ UNCHANGED <<parse_vars, pure_vars, merge_vars, cmd_vars, flow_vars, program_vars>>

\* the refresh ends: the debouncer schedules its timer again, for the cooldown
RefreshEnds ==
    /\ deb_running
    /\ deb_running' = FALSE
    /\ deb_timer' = deb_now + REQUEST_REFRESH_DELAY
    /\ deb_windows' = Append(deb_windows, NewWindow(deb_now, <<>>))
    /\ UNCHANGED <<deb_now, deb_execute_at_end, deb_requests, deb_dropped>>
    /\ UNCHANGED <<parse_vars, pure_vars, merge_vars, cmd_vars, flow_vars, program_vars>>

\* time passes; a timer that is due ends first
Tick ==
    /\ deb_now < MaxTicks
    /\ deb_timer # deb_now
    /\ deb_now' = deb_now + 1
    /\ UNCHANGED <<deb_timer, deb_execute_at_end, deb_running, deb_requests, deb_dropped,
                   deb_windows>>
    /\ UNCHANGED <<parse_vars, pure_vars, merge_vars, cmd_vars, flow_vars, program_vars>>

DebounceNext ==
    \/ RequestRefresh
    \/ TimerFinish
    \/ RefreshEnds
    \/ Tick

SpecDebounce == DebounceInit /\ [][DebounceNext]_vars

(***************************************************************************)
(* The configuration flow: async_step_user and validate_user_input.        *)
(***************************************************************************)
FlowInit ==
    /\ flow_pc = "form"
    /\ flow_key = ""
    /\ flow_errors = ""
    /\ flow_history = <<>>
    /\ ParseOff
    /\ PureOff
    /\ MergeOff
    /\ CommandOff
    /\ DebounceOff
    /\ RegistryInit

\* the submission failed for cause and exc left validate_user_input: the form
\* is shown again with the error
FlowShowError(api_key, cause, exc) ==
    /\ flow_errors' = async_step_user_error(exc)
    /\ flow_history' = Append(flow_history,
                              [api_key |-> api_key, cause |-> cause,
                               error |-> async_step_user_error(exc)])
    /\ flow_pc' = "form"

\* the user submits the form: validate_user_input constructs the host
\* configuration (its api_url is the backend URL imported from .const),
\* outside its try statement, and awaits api.sync_devices()
FlowSubmit(api_key) ==
    /\ flow_pc = "form"
    /\ Len(flow_history) < MaxAttempts
    /\ flow_key' = api_key
    /\ IF __post_init__(api_key, "https://host/") # "ok"
       THEN FlowShowError(api_key, "no_token", __post_init__(api_key, "https://host/"))
       ELSE /\ flow_pc' = "validating"
            /\ UNCHANGED <<flow_errors, flow_history>>
    /\ UNCHANGED <<parse_vars, pure_vars, merge_vars, cmd_vars, deb_vars, program_vars>>

\* the request of sync_devices returns result: the entry is created, or the
\* parser raises out of sync_devices
FlowSyncReturns(result) ==
    /\ flow_pc = "validating"
    /\ IF sync_raises(result)
       THEN FlowShowError(flow_key, "malformed", validate_user_input_raises("IndexError"))
       ELSE /\ flow_pc' = "created"
            /\ flow_errors' = ""
            /\ UNCHANGED flow_history
    /\ UNCHANGED flow_key
    /\ UNCHANGED <<parse_vars, pure_vars, merge_vars, cmd_vars, deb_vars, program_vars>>

\* the request of sync_devices fails: tinxy_request raises TinxyException
FlowSyncFails(failure) ==
    /\ flow_pc = "validating"
    /\ FlowShowError(flow_key, failure, validate_user_input_raises(tinxy_request_raises(failure)))
    /\ UNCHANGED flow_key
    /\ UNCHANGED <<parse_vars, pure_vars, merge_vars, cmd_vars, deb_vars, program_vars>>

FlowNext ==
    \/ \E api_key \in ApiKeys : FlowSubmit(api_key)
    \/ \E result \in Inventories : FlowSyncReturns(result)
    \/ \E failure \in FlowFailures : FlowSyncFails(failure)

SpecFlow == FlowInit /\ [][FlowNext]_vars

(***************************************************************************)
(* Properties of the parser.                                               *)
(***************************************************************************)
Enabled(hw) == hw.typeId.name \in ENABLED_DEVICES

\* the deviceTypes lists a unit with the slots of data may carry
OverrideLists(hw) ==
    { dts \in SeqsUpTo(Overrides, MaxSlots) : Len(dts) >= Len(hw.devices) }

OrderedRule(type_name, slot) ==
    IF type_name \in {"EVA_BULB_WW", "EVA_BULB"} THEN "Light"
    ELSE IF type_name \in {"WIFI_3SWITCH_1FAN", "Fan", "WIFI_SWITCH_1FAN_V1",
                           "WIFI_3SWITCH_1FAN_V3"} /\ slot = 0 THEN "Fan"
    ELSE IF type_name \in {"Tubelight", "LED Bulb", "EVA_BULB_WW"} THEN "Light"
    ELSE IF type_name \in {"WIRED_DOOR_LOCK_V3"} THEN "Lock"
    ELSE "Switch"

\* C8: for every enabled unit and every slot index (index 0 of a single-node
\* unit, every slot of a multi-node unit) the capability class of the parsed
\* device is the result of the ordered rule EVA -> Light, fan-combo at slot 0
\* -> Fan, light type name -> Light, lock type -> Lock, else Switch.
C8_OrderedRule ==
    (parse_pc = "returned" /\ Enabled(unit)) =>
        \A i \in 1..Len(parsed) :
            parsed[i].device_type = OrderedRule(unit.typeId.name, i - 1)

\* C9: in a multi-slot unit of a fan-combo type the device of slot 0 is a Fan
\* whatever deviceTypes says and the devices of all other slots are Switch;
\* the capability classes are the same for every override list of the unit.
C9_FanCombo ==
    (parse_pc = "returned" /\ unit.typeId.name \in TYPE_ID_FAN /\ unit.devices # <<>>) =>
        /\ parsed[1].device_type = "Fan"
        /\ \A i \in 2..Len(parsed) : parsed[i].device_type = "Switch"
        /\ \A dts \in OverrideLists(unit) :
             LET other == parse_device([unit EXCEPT !.deviceTypes = dts])
             IN  \A i \in 1..Len(parsed) : other[i].device_type = parsed[i].device_type

C9_Witness ==
    /\ parse_pc = "returned"
    /\ unit.typeId.name = "WIFI_3SWITCH_1FAN"
    /\ Len(unit.devices) >= 2
    /\ unit.deviceTypes[1] = "Light"
    /\ unit.deviceTypes[2] = "Fan"
    /\ parsed[1].device_type = "Fan"
    /\ parsed[2].device_type = "Switch"

\* C10 (as claimed): in a multi-slot enabled unit the capability class of a
\* slot with index >= 1 is the per-slot override when one is provided and the
\* generic rule's result only when none is provided.
C10_OverrideIsClass ==
    (parse_pc = "returned" /\ Enabled(unit) /\ unit.devices # <<>>) =>
        \A i \in 2..Len(parsed) :
            parsed[i].device_type =
                IF unit.deviceTypes[i] # ""
                THEN unit.deviceTypes[i]
                ELSE _get_device_type(unit.typeId.name, i - 1)

\* C10 (amended): in a multi-slot enabled unit the capability class
\* (device_type) of a slot with index >= 1 never depends on the override: it
\* is Light for the light type names, Lock for the lock types and Switch
\* otherwise; the override, when provided, is what user_device_type carries,
\* and user_device_type is the capability class when none is provided.
C10_OverrideIsUserType ==
    (parse_pc = "returned" /\ Enabled(unit) /\ unit.devices # <<>>) =>
        \A i \in 2..Len(parsed) :
            /\ parsed[i].device_type =
                 IF unit.typeId.name \in {"Tubelight", "LED Bulb", "EVA_BULB_WW"}
                 THEN "Light"
                 ELSE IF unit.typeId.name \in {"WIRED_DOOR_LOCK_V3"} THEN "Lock"
                 ELSE "Switch"
            /\ parsed[i].user_device_type =
                 IF unit.deviceTypes[i] # ""
                 THEN unit.deviceTypes[i]
                 ELSE parsed[i].device_type

C10_Witness ==
    /\ parse_pc = "returned"
    /\ unit.typeId.name = "WIFI_4SWITCH"
    /\ Len(unit.devices) >= 2
    /\ unit.deviceTypes[2] = "Light"
    /\ parsed[2].device_type = "Switch"
    /\ parsed[2].user_device_type = "Light"

(***************************************************************************)
(* Properties of the registry and the coordinator.                         *)
(***************************************************************************)
Ids(devs) == { devs[i].id : i \in 1..Len(devs) }

UnitIdsOf(devs) == { devs[i].device_id : i \in 1..Len(devs) }

\* the tasks with a get_all_status request in progress
Fetching == { t \in Tasks : pc[t] \in {"first_refresh", "refresh", "get_all_status"} }

\* C1: after a refresh has returned, the keys of the merged view are exactly
\* the keys that are both in the coordinator's device list and in the
\* extracted status mapping of that refresh.
C1_MergedKeys ==
    has_data => DOMAIN data = Ids(all_devices) \cap DOMAIN get_all_status(last_feed)

C1_Witness ==
    /\ has_data
    /\ data # EmptyMap
    /\ \E k \in Ids(all_devices) : k \notin DOMAIN data
    /\ \E k \in DOMAIN get_all_status(last_feed) : k \notin DOMAIN data

\* C2: the registry's list is the concatenation of parse_device over the
\* units of the inventory of the last sync that returned; no device of a unit
\* absent from that inventory is in list_all_devices or in a capability view.
C2_RegistryIsLatest ==
    /\ devices = device_list(last_synced)
    /\ \A view \in {devices, list_switches(devices), list_lights(devices),
                    list_fans(devices), list_locks(devices)} :
          UnitIdsOf(view) \subseteq { last_synced[i]._id : i \in 1..Len(last_synced) }

C2_Witness ==
    /\ syncs >= 2
    /\ sync_result = "ok"
    /\ constructed
    /\ devices # <<>>
    /\ \E k \in UnitIdsOf(all_devices) : k \notin UnitIdsOf(devices)

\* C3: a sync_devices call that fails, by a transport failure or by a raise
\* of the parser, ends with that error at its caller and leaves the
\* registry's list as it was.
C3_FailedSyncKeepsList ==
    [][(sync_pc = "fetching" /\ sync_pc' = "idle" /\ sync_result' # "ok")
          => (devices' = devices /\ sync_result' \in {"TinxyException", "IndexError"})]_vars

C3_Witness ==
    /\ syncs >= 2
    /\ sync_pc = "idle"
    /\ sync_result = "IndexError"
    /\ devices # <<>>
    /\ devices = device_list(last_synced)

\* C4: at most one get_all_status request of the instance is in progress,
\* the requests of the light and lock platform setup included.
C4_SingleFetch == Cardinality(Fetching) <= 1

\* C5: the mapping readers see is the complete mapping of the last refresh
\* that returned (nothing before the first), also while a refresh is in flight.
C5_WholeSnapshots ==
    data = IF has_data
           THEN _async_update_data(all_devices, get_all_status(last_feed))
           ELSE EmptyMap

C5_Witness ==
    /\ has_data
    /\ data # EmptyMap
    /\ pc["timer"] = "refresh"
    /\ \E t \in Platforms : pc[t] = "get_all_status"

\* C6 (as claimed): the merged view of a refresh is computed from the list
\* the registry holds at the time of the refresh.
C6_MergesCurrentRegistry ==
    has_data => data = _async_update_data(registry_at_refresh, get_all_status(last_feed))

\* C6 (amended): the merged view of every refresh is computed from the list
\* the registry held when the coordinator was constructed, also after a later
\* sync has replaced the registry's list.
C6_MergesConstructionList ==
    has_data =>
        data = _async_update_data(device_list(ctor_inventory), get_all_status(last_feed))

C6_Witness ==
    /\ has_data
    /\ syncs >= 2
    /\ registry_at_refresh # device_list(ctor_inventory)
    /\ data # _async_update_data(registry_at_refresh, get_all_status(last_feed))

\* the capability views of the registry, by class
ViewOf(class) ==
    CASE class = "Switch" -> list_switches(devices)
      [] class = "Light" -> list_lights(devices)
      [] class = "Fan" -> list_fans(devices)
      [] OTHER -> list_locks(devices)

\* C11: each capability view holds exactly the registry's devices of its
\* class, the locks being the devices classified Lock by the lock type set, so
\* that every registered device is in exactly one of the four views.
C11_ViewsPartition ==
    /\ \A class \in {"Switch", "Light", "Fan", "Lock"} :
          ViewOf(class) = SelectByType(devices, class)
    /\ \A i \in 1..Len(devices) :
          Cardinality({ class \in {"Switch", "Light", "Fan", "Lock"} :
                          devices[i].id \in Ids(ViewOf(class)) }) = 1

(***************************************************************************)
(* Properties of the status extractor.                                     *)
(***************************************************************************)
\* the keys the records of a feed stand for
KeysOfRecord(rec) ==
    IF "state" \notin DOMAIN rec THEN {}
    ELSE IF "list" \in DOMAIN rec.state
         THEN { rec._id \o "-" \o
                  ToString(IF "number" \in DOMAIN rec.state.list[j]
                           THEN rec.state.list[j].number ELSE 1) :
                j \in 1..Len(rec.state.list) }
         ELSE { rec._id \o "-1" }

\* C12: the keys of the mapping get_all_status returns are "{_id}-1" for every
\* record whose state is a single object and "{_id}-{number}" (number 1 when
\* the item has none) for every item of a record whose state is a list; a
\* record without state gives no key, and no key stands for a relay without
\* an item.
C12_StatusKeys ==
    status_pc = "returned" =>
        DOMAIN status_out = UNION { KeysOfRecord(feed_in[i]) : i \in 1..Len(feed_in) }

C12_Witness ==
    /\ status_pc = "returned"
    /\ Len(feed_in) = 2
    /\ feed_in[1] = [_id |-> "U1",
                     state |-> [list |-> << [number |-> 2,
                                   state |-> [state |-> "ON", status |-> 1,
                                              brightness |-> 66]] >>]]
    /\ feed_in[2] = [_id |-> "U2"]
    /\ DOMAIN status_out = {"U1-2"}
    /\ status_out["U1-2"] = [state |-> TRUE, status |-> 1, brightness |-> 66]

\* C13: each of state, status, brightness, door and colorTemperatureInKelvin
\* is in the extracted record exactly when it is in the raw state object, and
\* status, brightness, door and colorTemperatureInKelvin are copied unchanged.
C13_FieldPresence ==
    extract_pc = "returned" =>
        /\ \A f \in {"state", "status", "brightness", "door", "colorTemperatureInKelvin"} :
              f \in DOMAIN state_out <=> f \in DOMAIN state_in
        /\ \A f \in {"status", "brightness", "door", "colorTemperatureInKelvin"} :
              f \in DOMAIN state_in => state_out[f] = state_in[f]

C13_Witness ==
    /\ extract_pc = "returned"
    /\ DOMAIN state_in = {"state", "status", "rssi"}
    /\ state_in.status = 0
    /\ DOMAIN state_out = {"state", "status"}
    /\ state_out.status = 0

\* C14: the extracted on/off state is a boolean, true exactly when the raw
\* state string is "ON".
C14_StateBoolean ==
    (extract_pc = "returned" /\ "state" \in DOMAIN state_in) =>
        /\ state_out.state \in BOOLEAN
        /\ state_out.state <=> state_in.state = "ON"

C14_Witness ==
    /\ extract_pc = "returned"
    /\ "state" \in DOMAIN state_in
    /\ state_in.state = "on"
    /\ state_out.state = FALSE

(***************************************************************************)
(* Properties of the outcome of a refresh.                                 *)
(***************************************************************************)
\* C15: a refresh whose status fetch the vendor rejected for its credentials
\* ends with ConfigEntryAuthFailed.
C15_RejectedIsAuthFailure ==
    refresh_cause = "rejected" => refresh_outcome = "ConfigEntryAuthFailed"

\* C16: a refresh that exceeded its time budget ends with UpdateFailed, never
\* with ConfigEntryAuthFailed.
C16_TimeoutIsUpdateFailed ==
    refresh_cause = "timeout" => refresh_outcome = "UpdateFailed"

C16_Witness ==
    /\ refresh_cause = "timeout"
    /\ refresh_outcome = "UpdateFailed"
    /\ pc["timer"] = "idle"
    /\ has_data

\* C17: a refresh that ended returned the merged snapshot, raised
\* ConfigEntryAuthFailed or raised UpdateFailed; it returned exactly when
\* nothing failed, and no exception of the fetch, the extractor or the merge
\* leaves it under another name.
C17_ThreeOutcomes ==
    /\ refresh_outcome \in {"none", "ok", "ConfigEntryAuthFailed", "UpdateFailed"}
    /\ refresh_outcome = "ok" <=> (refresh_cause = "none" /\ has_data)
    /\ refresh_outcome = "none" <=> (refresh_cause = "none" /\ ~has_data)

C17_Witness ==
    /\ refresh_cause = "malformed"
    /\ refresh_outcome = "UpdateFailed"
    /\ pc["timer"] = "idle"

(***************************************************************************)
(* Properties of the host configuration and of parsing anomalies.          *)
(***************************************************************************)
\* C18: constructing the host configuration with an empty or missing token
\* raises TinxyAuthenticationException, also when the URL is missing too;
\* with a token and an empty or missing URL it raises TinxyException; in both
\* cases no request was made.
C18_ConfigFailsFast ==
    host_config # "new" =>
        /\ api_token \in {NoneValue, ""} => host_config = "TinxyAuthenticationException"
        /\ (api_token \notin {NoneValue, ""} /\ api_url \in {NoneValue, ""})
              => host_config = "TinxyException"
        /\ host_config # "ok" =>
              /\ syncs = 0
              /\ sync_pc = "idle"
              /\ ~constructed
              /\ Fetching = {}

C18_Witness ==
    /\ host_config = "TinxyAuthenticationException"
    /\ api_token = ""
    /\ api_url = NoneValue
    /\ syncs = 0

\* C19: parse_device returns the empty list without a warning for a unit of a
\* disabled type, and the empty list with exactly one warning for a unit whose
\* type is neither enabled nor disabled, with or without relay slots; it
\* raises for neither.
C19_DisabledAndUnknown ==
    (parse_pc # "call" /\ unit.typeId.name \notin ENABLED_DEVICES) =>
        /\ parse_pc = "returned"
        /\ parsed = <<>>
        /\ warned = IF unit.typeId.name \in DISABLED_DEVICES THEN 0 ELSE 1

C19_Witness ==
    /\ parse_pc = "returned"
    /\ unit.typeId.name = "SMART_PLUG_X"
    /\ Len(unit.devices) = 2
    /\ Len(unit.deviceTypes) = 1
    /\ parsed = <<>>
    /\ warned = 1

\* the logical devices of the unit hw are in the list devs
HoldsUnit(devs, hw) ==
    \A i \in 1..Len(parse_device(hw)) :
        \E j \in 1..Len(devs) : devs[j] = parse_device(hw)[i]

\* C20: a sync whose fetch returned an inventory with a well-formed enabled
\* unit succeeds whatever other units the inventory mixes in, and the
\* registry then holds the logical devices of every unit that parses.
C20_BadUnitNeverBlocks ==
    [][\A result \in Inventories :
          (/\ SyncReceive(result)
           /\ \E i \in 1..Len(result) :
                 ~parse_device_raises(result[i]) /\ parse_device(result[i]) # <<>>) =>
              /\ sync_result' = "ok"
              /\ \A i \in 1..Len(result) :
                    ~parse_device_raises(result[i]) => HoldsUnit(devices', result[i])]_vars

(***************************************************************************)
(* Properties of the device keys and of the merge.                         *)
(***************************************************************************)
\* C21: the id fields of the logical devices in the registry are pairwise
\* distinct, within a unit and across the units of an inventory whose units
\* have pairwise distinct identifiers.
C21_DistinctKeys ==
    \A i, j \in 1..Len(devices) : i # j => devices[i].id # devices[j].id

C21_Witness ==
    /\ sync_pc = "idle"
    /\ sync_result = "ok"
    /\ Len(last_synced) = 2
    /\ Len(devices) = 4
    /\ Ids(devices) = {"U1-1", "U1-2", "U2-1", "U2-2"}

\* the device of the list devs whose id is k
DeviceOf(devs, k) == devs[CHOOSE i \in 1..Len(devs) : devs[i].id = k]

\* C22: the merged view of a device that has a status entry holds every static
\* field of the device and every field of its status record, and a field of
\* both carries the value of the status record.
C22_MergedFields ==
    has_data =>
        \A k \in Ids(all_devices) \cap DOMAIN get_all_status(last_feed) :
            LET device == DeviceOf(all_devices, k)
                status == get_all_status(last_feed)[k]
            IN  /\ k \in DOMAIN data
                /\ DOMAIN data[k] = DOMAIN device \cup DOMAIN status
                /\ \A f \in DOMAIN data[k] :
                      data[k][f] = IF f \in DOMAIN status THEN status[f] ELSE device[f]

C22_Witness ==
    /\ has_data
    /\ "U1-2" \in DOMAIN data
    /\ DOMAIN data["U1-2"] = DOMAIN DeviceOf(all_devices, "U1-2") \cup {"state", "status", "brightness"}
    /\ data["U1-2"].relay_no = 2
    /\ data["U1-2"].user_device_type = "Light"
    /\ data["U1-2"].state = FALSE
    /\ data["U1-2"].brightness = 66

\* C23: the mapping a refresh returns depends only on the device list and on
\* the feed of that refresh: a refresh over the feed of the refresh before it
\* returns the same mapping, every dynamic field of a merged view is a field
\* of the current status record, and a device without a current status
\* record has no merged view.
C23_NoStaleFields ==
    \A i \in 1..Len(merge_views) :
        /\ (i > 1 /\ merge_feeds[i] = merge_feeds[i - 1]) => merge_views[i] = merge_views[i - 1]
        /\ DOMAIN merge_views[i] \subseteq DOMAIN get_all_status(merge_feeds[i])
        /\ \A k \in DOMAIN merge_views[i] :
              DOMAIN merge_views[i][k] \subseteq
                  DOMAIN DeviceOf(merge_devices, k) \cup DOMAIN get_all_status(merge_feeds[i])[k]

C23_Witness ==
    /\ Len(merge_views) = 2
    /\ "U1-2" \in DOMAIN merge_views[1]
    /\ "brightness" \in DOMAIN merge_views[1]["U1-2"]
    /\ "U1-2" \in DOMAIN merge_views[2]
    /\ "brightness" \notin DOMAIN merge_views[2]["U1-2"]
    /\ "U1-1" \in DOMAIN merge_views[1]
    /\ "U1-1" \notin DOMAIN merge_views[2]

\* C27: for a device that had a merged view when its entity was created
\* and has none after a later refresh, the state readers of the entity give
\* "unknown": neither a value taken from a default nor a lookup error.
C27_AbsentIsUnknown ==
    \A i, j \in 1..Len(merge_views) :
        i < j =>
            \A k \in DOMAIN merge_views[i] \ DOMAIN merge_views[j] :
                LET device == DeviceOf(merge_devices, k)
                IN  /\ device.device_type = "Light" =>
                          /\ is_on(merge_views[j], k) = "unknown"
                          /\ light_available(merge_views[j], k) = "unknown"
                    /\ device.gtype \in GTYPE_LOCK =>
                          /\ is_locked(merge_views[j], k) = "unknown"
                          /\ lock_available(merge_views[j], k) = "unknown"

(***************************************************************************)
(* Properties of the commands.                                             *)
(***************************************************************************)
\* C24: the payload of every command request holds the state flag under
\* request.state and the relay number under deviceNumber, holds
\* request.brightness exactly when a brightness was given to
\* set_device_state, and the request sent carries the source tag.
C24_PayloadShape ==
    cmd_request # EmptyMap =>
        LET payload == cmd_request.json
        IN  /\ payload.request.state = cmd_args.state
            /\ payload.request.state \in {0, 1}
            /\ payload.deviceNumber = cmd_args.device_number
            /\ "brightness" \in DOMAIN payload.request <=> cmd_args.brightness # <<>>
            /\ cmd_args.brightness # <<>> => payload.request.brightness = cmd_args.brightness[1]
            /\ payload.source = "Home Assistant"

C24_Witness ==
    /\ cmd_pc = "returned"
    /\ cmd_name = "async_turn_off"
    /\ cmd_kwargs.brightness = <<0>>
    /\ cmd_request # EmptyMap
    /\ cmd_request.json.request = [state |-> 0, brightness |-> 0]
    /\ cmd_request.json.deviceNumber = "2"
    /\ cmd_request.json.source = "Home Assistant"

\* C25: a command payload holds colorTemperatureInKelvin only when a colour
\* temperature was given and the target is a light with colour-temperature
\* support.
C25_ColorTempOnlyIfSupported ==
    (cmd_request # EmptyMap /\ "colorTemperatureInKelvin" \in DOMAIN cmd_request.json.request) =>
        /\ cmd_kwargs.color_temp_kelvin # <<>>
        /\ cmd_entity.platform = "light"
        /\ ColorModeOf(cmd_entity.traits) = "COLOR_TEMP"

\* C30: every light and lock command asks the coordinator for a refresh
\* exactly once, after its API call has ended, whether the call returned or
\* raised; a call that raised is logged once and the command still returns.
C30_OneRefreshRequest ==
    /\ cmd_pc \in {"call", "api"} => (cmd_refresh_requests = 0 /\ cmd_errors = 0)
    /\ cmd_pc = "after_try" => cmd_refresh_requests = 0
    /\ cmd_pc = "returned" => cmd_refresh_requests = 1
    /\ cmd_errors \in {0, 1}
    /\ (cmd_pc \in {"after_try", "returned"} /\ cmd_request = EmptyMap) => cmd_errors = 1

C30_Witness ==
    /\ cmd_pc = "returned"
    /\ cmd_name = "async_lock"
    /\ cmd_request # EmptyMap
    /\ cmd_errors = 1
    /\ cmd_refresh_requests = 1

(***************************************************************************)
(* Properties of async_setup_entry.                                        *)
(***************************************************************************)
\* the position of a step in setup_steps, 0 when it was not done
StepAt(step) ==
    IF \E i \in 1..Len(setup_steps) : setup_steps[i] = step
    THEN CHOOSE i \in 1..Len(setup_steps) : setup_steps[i] = step
    ELSE 0

\* C29: when the sync of async_setup_entry failed, setup returns False with
\* no coordinator created, no (api, coordinator) pair stored and no platform
\* forwarded; the pair is stored and the platforms are forwarded only after a
\* sync that succeeded, the store before the forward.
C29_FailedSyncLeavesNothing ==
    /\ (sync_pc = "idle" /\ sync_result \notin {"none", "ok"}) =>
          /\ ~constructed
          /\ setup_steps = <<>>
          /\ \A t \in Platforms : pc[t] = "init"
    /\ setup_result = "False" =>
          /\ sync_result \in {"TinxyException", "IndexError"}
          /\ ~constructed
          /\ setup_steps = <<>>
          /\ \A t \in Platforms : pc[t] = "init"
    /\ (StepAt("store") # 0 \/ StepAt("forward") # 0 \/ \E t \in Platforms : pc[t] # "init") =>
          /\ sync_result = "ok"
          /\ 0 < StepAt("coordinator")
          /\ StepAt("coordinator") < StepAt("store")
          /\ StepAt("store") < StepAt("forward")

C29_Witness ==
    /\ setup_result = "False"
    /\ sync_result = "IndexError"
    /\ syncs = 1
    /\ ~constructed

(***************************************************************************)
(* Properties of the refresh debouncer.                                    *)
(***************************************************************************)
\* the timer period i of the debouncer has ended
Closed(i) == i < Len(deb_windows) \/ deb_timer = NoTimer

C28_FlowErrorByCause ==
    \A i \in 1..Len(flow_history) :
        /\ flow_history[i].cause = "unreachable" => flow_history[i].error = "cannot_connect"
        /\ flow_history[i].cause = "rejected" => flow_history[i].error = "invalid_auth"

====
